---- MODULE Spec2Model ----
(***************************************************************************)
(* A model of apache_beam/transforms/util.py: CoGroupByKey (construction,  *)
(* the two input-shape dispatches, the pipeline check loop, the stages the *)
(* expansion applies and the per-row rebuilding of the output containers), *)
(* RemoveDuplicates, Keys, Values and KvSwap.                              *)
(*                                                                         *)
(* Mutable Python objects (the lists and the dict/tuple a row's container  *)
(* is made of) live in a heap and are referred to by identity, so that     *)
(* sharing between rows is something the model can exhibit.                *)
(***************************************************************************)
EXTENDS Integers, Sequences, FiniteSets, TLC

\* Bounds of the model.
MaxSources == 2
MaxElems == 2
MaxLen == 3

\* Python's None (falsy; the default of kwargs.pop('pipeline', None)).
None == 0

\* Small input sets.
Pipelines == {1, 2}
DataKeys == {1, 2}
DataVals == {7, 8}
KwNames == {"pipeline", "label", "coder"}
Attrs == {"keys", "items", "viewvalues"}
MapTags == {11 * t : t \in 1..MaxSources}
Elems == 1..3

VARIABLES
  args,             \* the keyword arguments CoGroupByKey(**kwargs) is called with
  self_pipeline,    \* self.pipeline
  pvalueish,        \* the input object handed to the transform
  extracted,        \* what _extract_input_pvalues returned
  pcolls,           \* expand's local pcolls: the (tag, pcoll) pairs
  result_ctor,      \* expand's result_ctor: "dict" or "tuple" lambda
  result_ctor_arg,  \* expand's result_ctor_arg
  pc,               \* position in __init__ / expand, or the exception raised
  i,                \* index of the loop at lines 132-135 and of the comprehension at 137-138
  applied,          \* the transforms applied to the pipeline so far
  tagged,           \* the outputs of the pair_with_<tag> stages
  flat,             \* the output of Flatten
  grouped,          \* the output of GroupByKey: key -> sequence of (tag, value)
  rows,             \* per grouped row, the frame of _merge_tagged_vals_under_key
  heap,             \* the mutable objects result_ctor allocated
  output,           \* the rows the last Map emitted
  u_op,             \* utility transform under test
  u_in,             \* its input collection
  u_cur,            \* the collection after the stages run so far
  u_pc              \* how many stages have run

vars == <<args, self_pipeline, pvalueish, extracted, pcolls, result_ctor,
          result_ctor_arg, pc, i, applied, tagged, flat, grouped, rows, heap,
          output, u_op, u_in, u_cur, u_pc>>

cogroupVars == <<args, self_pipeline, pvalueish, extracted, pcolls, result_ctor,
                 result_ctor_arg, pc, i, applied, tagged, flat, grouped, rows,
                 heap, output>>

utilVars == <<u_op, u_in, u_cur, u_pc>>

----------------------------------------------------------------------------
\* Generic helpers.

Range(s) == {s[n] : n \in DOMAIN s}

SeqsUpTo(S, n) == UNION {[1..k -> S] : k \in 0..n}

RECURSIVE Concat(_)
Concat(ss) == IF ss = <<>> THEN <<>> ELSE Head(ss) \o Concat(Tail(ss))

RECURSIVE SortedSeq(_)
SortedSeq(S) ==
  IF S = {} THEN <<>>
  ELSE LET m == CHOOSE x \in S : \A y \in S : x <= y
       IN <<m>> \o SortedSeq(S \ {m})

IndexOf(s, x) == CHOOSE n \in DOMAIN s : s[n] = x

Permute(s, sigma) == [n \in 1..Len(s) |-> s[sigma[n]]]

CountIn(s, x) == Cardinality({n \in DOMAIN s : s[n] = x})

----------------------------------------------------------------------------
\* The input object and the Python protocol it offers.

PColl(p, e) == [pipeline |-> p, elems |-> e]

PCollItem(n) == [kind |-> "pcoll", ref |-> n]

TagItem(t) == [kind |-> "tag", ref |-> t]

\* A flat iterable has none of the mapping attributes.
IsMappingObject(o) == o.attrs # {}

\* iter(o): a mapping yields its keys, a flat iterable its members.
Iterate(o) ==
  IF IsMappingObject(o)
  THEN [n \in 1..Len(o.tags) |-> TagItem(o.tags[n])]
  ELSE [n \in 1..Len(o.colls) |-> PCollItem(n)]

\* o.keys()
DictKeys(o) == o.tags

\* o.items()
DictItems(o) == [n \in 1..Len(o.tags) |-> <<o.tags[n], PCollItem(n)>>]

\* o.viewvalues()
DictValues(o) == [n \in 1..Len(o.colls) |-> PCollItem(n)]

\* list(enumerate(items))
Enumerate(items) == [n \in 1..Len(items) |-> <<n - 1, items[n]>>]

----------------------------------------------------------------------------
\* CoGroupByKey.__init__

\* Variant: the leftover test made before 'pipeline' is popped.
InitRaisesBeforePop(kwargs) == kwargs # {}

InitRaises(kwargs) == kwargs \ {"pipeline"} # {}

Construct ==
  /\ pc = "new"
  /\ self_pipeline' = IF "pipeline" \in args.kwargs THEN args.pipeline ELSE None
  /\ pc' = IF InitRaises(args.kwargs) THEN "ValueError" ELSE "constructed"
  /\ UNCHANGED <<args, pvalueish, extracted, pcolls, result_ctor, result_ctor_arg,
                 i, applied, tagged, flat, grouped, rows, heap, output>>
  /\ UNCHANGED utilVars

----------------------------------------------------------------------------
\* CoGroupByKey._extract_input_pvalues

extract_input_pvalues(o) ==
  IF "viewvalues" \in o.attrs
  THEN [as |-> "mapping", pvalues |-> DictValues(o)]
  ELSE [as |-> "sequence", pvalues |-> Iterate(o)]

ExtractInputPValues ==
  /\ pc = "constructed"
  /\ extracted' = extract_input_pvalues(pvalueish)
  /\ pc' = "extracted"
  /\ UNCHANGED <<args, self_pipeline, pvalueish, pcolls, result_ctor,
                 result_ctor_arg, i, applied, tagged, flat, grouped, rows, heap,
                 output>>
  /\ UNCHANGED utilVars

----------------------------------------------------------------------------
\* CoGroupByKey.expand: the try/except dispatch.

ExpandDispatch(o) ==
  IF "keys" \notin o.attrs THEN "sequence"
  ELSE IF "items" \notin o.attrs THEN "sequence"
  ELSE "mapping"

NormalizePColls(o) ==
  IF ExpandDispatch(o) = "mapping" THEN DictItems(o) ELSE Enumerate(Iterate(o))

NormalizeCtor(o) ==
  IF ExpandDispatch(o) = "mapping" THEN "dict" ELSE "tuple"

NormalizeCtorArg(o) ==
  IF ExpandDispatch(o) = "mapping" THEN DictKeys(o) ELSE Len(Enumerate(Iterate(o)))

Normalize ==
  /\ pc = "extracted"
  /\ pcolls' = NormalizePColls(pvalueish)
  /\ result_ctor' = NormalizeCtor(pvalueish)
  /\ result_ctor_arg' = NormalizeCtorArg(pvalueish)
  /\ i' = 1
  /\ pc' = IF Len(pcolls') = 0 THEN "flatten" ELSE "check"
  /\ UNCHANGED <<args, self_pipeline, pvalueish, extracted, applied, tagged,
                 flat, grouped, rows, heap, output>>
  /\ UNCHANGED utilVars

----------------------------------------------------------------------------
\* CoGroupByKey.expand: the check loop.

check_pcollection(item) == item.kind = "pcoll"

\* Variant: the assert statement compiled away.
PipelineAssertStripped(self_p, pcoll_p) == TRUE

PipelineAssert(self_p, pcoll_p) == (self_p # None) => (pcoll_p = self_p)

CheckPColl ==
  /\ pc = "check"
  /\ LET item == pcolls[i][2]
     IN IF ~check_pcollection(item)
        THEN pc' = "TypeError" /\ i' = i
        ELSE IF ~PipelineAssert(self_pipeline, pvalueish.colls[item.ref].pipeline)
        THEN pc' = "AssertionError" /\ i' = i
        ELSE IF i = Len(pcolls)
        THEN pc' = "pair" /\ i' = 1
        ELSE pc' = "check" /\ i' = i + 1
  /\ UNCHANGED <<args, self_pipeline, pvalueish, extracted, pcolls, result_ctor,
                 result_ctor_arg, applied, tagged, flat, grouped, rows, heap,
                 output>>
  /\ UNCHANGED utilVars

----------------------------------------------------------------------------
\* CoGroupByKey.expand: the stages.

\* Variant: the tag used where the key belongs.
pair_tag_as_key(key_value, tag) == <<tag, <<tag, key_value[2]>>>>

pair_tag_with_value(key_value, tag) == <<key_value[1], <<tag, key_value[2]>>>>

MapPairWith(elems, tag) ==
  [n \in 1..Len(elems) |-> pair_tag_with_value(elems[n], tag)]

Stage(label, tag) == [label |-> label, tag |-> tag]

ApplyPairWith ==
  /\ pc = "pair"
  /\ LET tag == pcolls[i][1]
         pcoll == pvalueish.colls[pcolls[i][2].ref]
     IN /\ tagged' = Append(tagged, MapPairWith(pcoll.elems, tag))
        /\ applied' = Append(applied, Stage("pair_with", tag))
  /\ IF i = Len(pcolls)
     THEN pc' = "flatten" /\ i' = i
     ELSE pc' = "pair" /\ i' = i + 1
  /\ UNCHANGED <<args, self_pipeline, pvalueish, extracted, pcolls, result_ctor,
                 result_ctor_arg, flat, grouped, rows, heap, output>>
  /\ UNCHANGED utilVars

Flatten(colls) == Concat(colls)

ApplyFlatten ==
  /\ pc = "flatten"
  /\ flat' = Flatten(tagged)
  /\ applied' = Append(applied, Stage("Flatten", None))
  /\ pc' = "group"
  /\ UNCHANGED <<args, self_pipeline, pvalueish, extracted, pcolls, result_ctor,
                 result_ctor_arg, i, tagged, grouped, rows, heap, output>>
  /\ UNCHANGED utilVars

ValuesUnder(c, k) ==
  LET HasKey(e) == e[1] = k
      sel == SelectSeq(c, HasKey)
  IN [n \in 1..Len(sel) |-> sel[n][2]]

GroupByKey(c) == [k \in {c[n][1] : n \in DOMAIN c} |-> ValuesUnder(c, k)]

ApplyGroupByKey ==
  /\ pc = "group"
  /\ \E sigma \in Permutations(1..Len(flat)) :
       grouped' = GroupByKey(Permute(flat, sigma))
  /\ applied' = Append(applied, Stage("GroupByKey", None))
  /\ pc' = "merge"
  /\ UNCHANGED <<args, self_pipeline, pvalueish, extracted, pcolls, result_ctor,
                 result_ctor_arg, i, tagged, flat, rows, heap, output>>
  /\ UNCHANGED utilVars

ApplyMerge ==
  /\ pc = "merge"
  /\ rows' = [k \in DOMAIN grouped |-> [st |-> "pending", j |-> 0, result |-> 0]]
  /\ applied' = Append(applied, Stage("Map(_merge_tagged_vals_under_key)", None))
  /\ pc' = "running"
  /\ UNCHANGED <<args, self_pipeline, pvalueish, extracted, pcolls, result_ctor,
                 result_ctor_arg, i, tagged, flat, grouped, heap, output>>
  /\ UNCHANGED utilVars

----------------------------------------------------------------------------
\* _merge_tagged_vals_under_key, one frame per grouped row.

NewList == [kind |-> "list", items |-> <<>>, slots |-> <<>>]

NewContainer(kind, slots) == [kind |-> kind, items |-> <<>>, slots |-> slots]

\* Variant: one slot short (xrange(size - 1), tags[1:]).
CallResultCtorShort(kind, arg, h) ==
  LET base == Len(h)
      full == IF kind = "dict" THEN Len(arg) ELSE arg
      n == IF full = 0 THEN 0 ELSE full - 1
      slots == IF kind = "dict"
               THEN [t \in {arg[m] : m \in 1..n} |-> base + IndexOf(arg, t)]
               ELSE [s \in 1..n |-> base + s]
  IN [heap |-> h \o [s \in 1..n |-> NewList] \o <<NewContainer(kind, slots)>>,
      id |-> base + n + 1]

\* Variant: one template container, built once and handed to every row.
CallResultCtorShared(kind, arg, h) ==
  LET made == {c \in DOMAIN h : h[c].kind # "list"}
      base == Len(h)
      n == IF kind = "dict" THEN Len(arg) ELSE arg
      slots == IF kind = "dict"
               THEN [t \in Range(arg) |-> base + IndexOf(arg, t)]
               ELSE [s \in 1..n |-> base + s]
  IN IF made # {}
     THEN [heap |-> h, id |-> CHOOSE c \in made : TRUE]
     ELSE [heap |-> h \o [s \in 1..n |-> NewList] \o <<NewContainer(kind, slots)>>,
           id |-> base + n + 1]

\* result_ctor(result_ctor_arg): a fresh container of fresh empty lists.
CallResultCtor(kind, arg, h) ==
  LET base == Len(h)
      n == IF kind = "dict" THEN Len(arg) ELSE arg
      slots == IF kind = "dict"
               THEN [t \in Range(arg) |-> base + IndexOf(arg, t)]
               ELSE [s \in 1..n |-> base + s]
  IN [heap |-> h \o [s \in 1..n |-> NewList] \o <<NewContainer(kind, slots)>>,
      id |-> base + n + 1]

\* result_value[tag]
GetItem(container, tag) ==
  IF container.kind = "dict" THEN container.slots[tag] ELSE container.slots[tag + 1]

\* Variant: list.insert(0, value)
ListPrepend(items, value) == <<value>> \o items

\* list.append(value)
ListAppend(items, value) == Append(items, value)

MergeStart(k) ==
  /\ pc = "running"
  /\ rows[k].st = "pending"
  /\ LET r == CallResultCtor(result_ctor, result_ctor_arg, heap)
     IN /\ heap' = r.heap
        /\ rows' = [rows EXCEPT ![k] = [st |-> "loop", j |-> 1, result |-> r.id]]
  /\ UNCHANGED <<args, self_pipeline, pvalueish, extracted, pcolls, result_ctor,
                 result_ctor_arg, pc, i, applied, tagged, flat, grouped, output>>
  /\ UNCHANGED utilVars

MergeAppend(k) ==
  /\ pc = "running"
  /\ rows[k].st = "loop"
  /\ rows[k].j <= Len(grouped[k])
  /\ LET tag == grouped[k][rows[k].j][1]
         value == grouped[k][rows[k].j][2]
         lid == GetItem(heap[rows[k].result], tag)
     IN heap' = [heap EXCEPT ![lid].items = ListAppend(@, value)]
  /\ rows' = [rows EXCEPT ![k].j = @ + 1]
  /\ UNCHANGED <<args, self_pipeline, pvalueish, extracted, pcolls, result_ctor,
                 result_ctor_arg, pc, i, applied, tagged, flat, grouped, output>>
  /\ UNCHANGED utilVars

MergeReturn(k) ==
  /\ pc = "running"
  /\ rows[k].st = "loop"
  /\ rows[k].j > Len(grouped[k])
  /\ output' = Append(output, <<k, rows[k].result>>)
  /\ rows' = [rows EXCEPT ![k].st = "returned"]
  /\ UNCHANGED <<args, self_pipeline, pvalueish, extracted, pcolls, result_ctor,
                 result_ctor_arg, pc, i, applied, tagged, flat, grouped, heap>>
  /\ UNCHANGED utilVars

StartRow == \E k \in DOMAIN rows : MergeStart(k)

AppendRow == \E k \in DOMAIN rows : MergeAppend(k)

ReturnRow == \E k \in DOMAIN rows : MergeReturn(k)

----------------------------------------------------------------------------
\* Initial states.

InitCoGroupLocals ==
  /\ self_pipeline = None
  /\ extracted = [as |-> "none", pvalues |-> <<>>]
  /\ pcolls = <<>>
  /\ result_ctor = "none"
  /\ result_ctor_arg = <<>>
  /\ i = 0
  /\ applied = <<>>
  /\ tagged = <<>>
  /\ flat = <<>>
  /\ grouped = <<>>
  /\ rows = <<>>
  /\ heap = <<>>
  /\ output = <<>>

InitUtilIdle ==
  /\ u_op = "none"
  /\ u_in = <<>>
  /\ u_cur = <<>>
  /\ u_pc = 0

KeyedElems == DataKeys \X DataVals

\* n collections holding at most budget elements together.
RECURSIVE CollSeqs(_, _)
CollSeqs(n, budget) ==
  IF n = 0 THEN {<<>>}
  ELSE UNION {{<<e>> \o cs : cs \in CollSeqs(n - 1, budget - Len(e))} :
              e \in SeqsUpTo(KeyedElems, budget)}

SeqInput(cs) == [attrs |-> {}, tags |-> <<>>, colls |-> cs]

MapInput(a, T, cs) == [attrs |-> a, tags |-> SortedSeq(T), colls |-> cs]

DataColls(n) ==
  {[m \in 1..n |-> PColl(1, es[m])] : es \in CollSeqs(n, MaxElems)}

DataInputs ==
  UNION {{SeqInput(cs) : cs \in DataColls(n)} : n \in 0..MaxSources}
  \cup UNION {{MapInput(Attrs, T, cs) : cs \in DataColls(Cardinality(T))} :
              T \in SUBSET MapTags}

DataArgs == {[kwargs |-> {}, pipeline |-> None],
             [kwargs |-> {"pipeline"}, pipeline |-> 1]}

Init ==
  /\ args \in DataArgs
  /\ pvalueish \in DataInputs
  /\ pc = "new"
  /\ InitCoGroupLocals
  /\ InitUtilIdle

Next ==
  \/ Construct
  \/ ExtractInputPValues
  \/ Normalize
  \/ CheckPColl
  \/ ApplyPairWith
  \/ ApplyFlatten
  \/ ApplyGroupByKey
  \/ ApplyMerge
  \/ StartRow
  \/ AppendRow
  \/ ReturnRow

Spec == Init /\ [][Next]_vars

----------------------------------------------------------------------------
\* Construction-time inputs: any keyword arguments, collections of either
\* pipeline, flat iterables and objects offering any of the mapping attributes.

BuildColls(n) == [1..n -> {PColl(p, <<<<1, 7>>>>) : p \in Pipelines}]

BuildInputs ==
  UNION {{SeqInput(cs) : cs \in BuildColls(n)} : n \in 0..MaxSources}
  \cup UNION {UNION {{MapInput(a, T, cs) : cs \in BuildColls(Cardinality(T))} :
                     T \in SUBSET MapTags} : a \in (SUBSET Attrs) \ {{}}}

BuildArgs ==
  {a \in [kwargs : SUBSET KwNames, pipeline : Pipelines \cup {None}] :
     "pipeline" \notin a.kwargs => a.pipeline = None}

InitBuild ==
  /\ args \in BuildArgs
  /\ pvalueish \in BuildInputs
  /\ pc = "new"
  /\ InitCoGroupLocals
  /\ InitUtilIdle

SpecBuild == InitBuild /\ [][Next]_vars

----------------------------------------------------------------------------
\* Keys, Values, KvSwap and RemoveDuplicates.

KeysFn(k_v) == k_v[1]

ValuesFn(k_v1) == k_v1[2]

\* Variant: the pair rebuilt in its own order.
KvSwapFnSameOrder(k_v2) == <<k_v2[1], k_v2[2]>>

KvSwapFn(k_v2) == <<k_v2[2], k_v2[1]>>

\* Variant: the element paired as the value, not the key.
ToPairsFnAsValue(v) == <<None, v>>

ToPairsFn(v) == <<v, None>>

GroupFn(vs) == None

\* One output per distinct key, the combined value beside it.
CombinePerKey(c) ==
  LET first == {n \in DOMAIN c : \A m \in 1..(n - 1) : c[m][1] # c[n][1]}
      order == SortedSeq(first)
  IN [r \in 1..Len(order) |->
        <<c[order[r]][1], GroupFn(ValuesUnder(c, c[order[r]][1]))>>]

ToPairs ==
  /\ u_op = "RemoveDuplicates"
  /\ u_pc = 0
  /\ u_cur' = [n \in 1..Len(u_cur) |-> ToPairsFn(u_cur[n])]
  /\ u_pc' = 1
  /\ UNCHANGED <<u_op, u_in>>
  /\ UNCHANGED cogroupVars

Group ==
  /\ u_op = "RemoveDuplicates"
  /\ u_pc = 1
  /\ \E sigma \in Permutations(1..Len(u_cur)) :
       u_cur' = CombinePerKey(Permute(u_cur, sigma))
  /\ u_pc' = 2
  /\ UNCHANGED <<u_op, u_in>>
  /\ UNCHANGED cogroupVars

\* Keys(), applied on its own to a collection of pairs or as the last stage
\* of RemoveDuplicates.
Keys ==
  /\ <<u_op, u_pc>> \in {<<"Keys", 0>>, <<"RemoveDuplicates", 2>>}
  /\ u_cur' = [n \in 1..Len(u_cur) |-> KeysFn(u_cur[n])]
  /\ u_pc' = u_pc + 1
  /\ UNCHANGED <<u_op, u_in>>
  /\ UNCHANGED cogroupVars

Values ==
  /\ u_op = "Values"
  /\ u_pc = 0
  /\ u_cur' = [n \in 1..Len(u_cur) |-> ValuesFn(u_cur[n])]
  /\ u_pc' = 1
  /\ UNCHANGED <<u_op, u_in>>
  /\ UNCHANGED cogroupVars

KvSwap ==
  /\ u_op = "KvSwap"
  /\ u_pc < 2
  /\ u_cur' = [n \in 1..Len(u_cur) |-> KvSwapFn(u_cur[n])]
  /\ u_pc' = u_pc + 1
  /\ UNCHANGED <<u_op, u_in>>
  /\ UNCHANGED cogroupVars

InitUtil ==
  /\ u_op \in {"RemoveDuplicates", "KvSwap", "Keys", "Values"}
  /\ u_in \in IF u_op = "RemoveDuplicates" THEN SeqsUpTo(Elems, MaxLen)
                                            ELSE SeqsUpTo(KeyedElems, MaxLen)
  /\ u_cur = u_in
  /\ u_pc = 0
  /\ args = [kwargs |-> {}, pipeline |-> None]
  /\ pvalueish = SeqInput(<<>>)
  /\ pc = "idle"
  /\ InitCoGroupLocals

NextUtil ==
  \/ ToPairs
  \/ Group
  \/ Keys
  \/ Values
  \/ KvSwap

SpecUtil == InitUtil /\ [][NextUtil]_vars

----------------------------------------------------------------------------
\* What the properties below speak of.

InputColls == pvalueish.colls

InputKeys ==
  UNION {{InputColls[m].elems[n][1] : n \in DOMAIN InputColls[m].elems} :
         m \in DOMAIN InputColls}

\* The tags of the input: the mapping's keys, or the positions 0..N-1.
InputTags ==
  IF result_ctor = "dict" THEN Range(pvalueish.tags)
  ELSE {m - 1 : m \in DOMAIN InputColls}

SourceOf(tag) ==
  IF result_ctor = "dict" THEN InputColls[IndexOf(pvalueish.tags, tag)]
  ELSE InputColls[tag + 1]

Started == {k \in DOMAIN rows : rows[k].result # 0}

Returned == {k \in DOMAIN rows : rows[k].st = "returned"}

Finished == pc = "running" /\ Returned = DOMAIN rows

ContainerOf(k) == heap[rows[k].result]

SlotItems(k, tag) == heap[GetItem(ContainerOf(k), tag)].items

\* The container of row k as a value: slot -> the sequence it holds.
RowValue(k) ==
  [s \in DOMAIN ContainerOf(k).slots |-> heap[ContainerOf(k).slots[s]].items]

ObjectsOf(k) == {rows[k].result} \cup Range(ContainerOf(k).slots)

\* The values tagged t among the first n entries the grouper delivered for k.
DeliveredUnder(k, t, n) ==
  LET HasTag(e) == e[1] = t
      sel == SelectSeq(SubSeq(grouped[k], 1, n), HasTag)
  IN [m \in 1..Len(sel) |-> sel[m][2]]

OutputKeys == {output[n][1] : n \in DOMAIN output}

----------------------------------------------------------------------------
\* C1: the output has exactly one row for each key that occurs in at least
\* one input collection and no row for any other key: every emitted row's
\* key is an input key, no key is emitted twice, and once every row has been
\* emitted the output key set equals the union of the inputs' key sets.
C1_OutputKeysAreUnion ==
  /\ \A n \in DOMAIN output : output[n][1] \in InputKeys
  /\ \A n, m \in DOMAIN output : output[n][1] = output[m][1] => n = m
  /\ Finished => OutputKeys = InputKeys

\* Two sources, each contributing a key the other lacks, all rows emitted.
C1_Witness ==
  /\ Finished
  /\ Len(InputColls) = 2
  /\ Len(output) = 2
  /\ \E k \in InputKeys : \A n \in DOMAIN InputColls[1].elems :
       InputColls[1].elems[n][1] # k

\* C2: every row's container has the shape the input fixes: a dict whose key
\* set is exactly the input's tag set, or a tuple of exactly N slots for N
\* input collections; every slot holds a sequence, and in an emitted row the
\* slot of a tag whose source has no element under the row's key is present
\* and empty.
C2_ContainerShape ==
  \A k \in Started :
    /\ ContainerOf(k).kind = result_ctor
    /\ result_ctor = "dict" => DOMAIN ContainerOf(k).slots = Range(pvalueish.tags)
    /\ result_ctor = "tuple" => DOMAIN ContainerOf(k).slots = 1..Len(InputColls)
    /\ \A s \in DOMAIN ContainerOf(k).slots :
         /\ ContainerOf(k).slots[s] \in DOMAIN heap
         /\ heap[ContainerOf(k).slots[s]].kind = "list"
    /\ k \in Returned =>
         \A t \in InputTags :
           (\A n \in DOMAIN SourceOf(t).elems : SourceOf(t).elems[n][1] # k)
             => SlotItems(k, t) = <<>>

\* An emitted row in which one tag matched and another did not.
C2_Witness ==
  \E k \in Returned : \E t1, t2 \in InputTags :
    /\ SlotItems(k, t1) # <<>>
    /\ SlotItems(k, t2) = <<>>

\* C3: in every row the slot of tag t is exactly the subsequence of the
\* grouped row's entries tagged t, in the order the grouper delivered them
\* (so far, while the row is being rebuilt); hence in an emitted row it holds
\* each value v once per occurrence of (k, v) in source t and nothing else.
C3_SlotIsTaggedSubsequence ==
  \A k \in Started : \A t \in InputTags :
    /\ SlotItems(k, t) = DeliveredUnder(k, t, rows[k].j - 1)
    /\ k \in Returned =>
         /\ SlotItems(k, t) = DeliveredUnder(k, t, Len(grouped[k]))
         /\ \A v \in DataVals :
              CountIn(SlotItems(k, t), v) = CountIn(SourceOf(t).elems, <<k, v>>)
         /\ Range(SlotItems(k, t)) \subseteq DataVals

\* An emitted row with a slot of two different values, and another source
\* present beside it.
C3_Witness ==
  \E k \in Returned : \E t \in InputTags :
    /\ Len(SlotItems(k, t)) = 2
    /\ SlotItems(k, t)[1] # SlotItems(k, t)[2]
    /\ Cardinality(InputTags) = 2

C4_Step ==
  /\ \A k1, k2 \in Started' :
       k1 # k2 => (ObjectsOf(k1) \cap ObjectsOf(k2))' = {}
  /\ \A k \in Started' : \A s1, s2 \in DOMAIN (ContainerOf(k).slots)' :
       s1 # s2 => (ContainerOf(k).slots[s1] # ContainerOf(k).slots[s2])'
  /\ \A k \in Started :
       rows'[k] = rows[k] => RowValue(k)' = RowValue(k)
  /\ result_ctor # "none" => result_ctor_arg' = result_ctor_arg

\* C4: no cross-row aliasing: after every step the containers and slot
\* sequences of any two rows are distinct objects (and the slots of one
\* container are distinct from each other), a step taken for one row leaves
\* the container of every other row as it was, and the constructor argument
\* is never changed.
C4_NoCrossRowAliasing == [][C4_Step]_vars

\* Two rows are being rebuilt at once, each has appended a value to its own
\* container and neither has returned yet.
C4_Witness ==
  \E k1, k2 \in Started :
    /\ k1 # k2
    /\ rows[k1].st = "loop" /\ rows[k1].j = 2
    /\ rows[k2].st = "loop" /\ rows[k2].j = 2
    /\ \E s \in DOMAIN RowValue(k1) : RowValue(k1)[s] # <<>>
    /\ \E s \in DOMAIN RowValue(k2) : RowValue(k2)[s] # <<>>

\* The collections expand iterates over, as the dispatch hands them on.
GivenPipelines ==
  {InputColls[NormalizePColls(pvalueish)[n][2].ref].pipeline :
     n \in {m \in DOMAIN NormalizePColls(pvalueish) :
              NormalizePColls(pvalueish)[m][2].kind = "pcoll"}}

BeforeStages == {"new", "constructed", "extracted", "check"}

ExplicitMismatch ==
  /\ args.kwargs = {"pipeline"}
  /\ args.pipeline # None
  /\ \E p \in GivenPipelines : p # args.pipeline

\* C5: constructed with an explicit pipeline and given an input collection of
\* another pipeline, expand ends in the context-mismatch error: it never gets
\* past the check loop, no stage is applied, nothing is grouped or emitted,
\* and it does not stop anywhere but in that error.
C5_MismatchFailsBeforeStages ==
  ExplicitMismatch =>
    /\ pc \in BeforeStages \cup {"AssertionError"}
    /\ applied = <<>> /\ tagged = <<>> /\ grouped = <<>> /\ output = <<>>
    /\ pc \in BeforeStages => ENABLED Next

\* The error raised on the second collection, the first one matching.
C5_Witness ==
  /\ ExplicitMismatch
  /\ pc = "AssertionError"
  /\ i = 2

\* C6: whenever two input collections have different pipelines expand fails
\* before it builds anything, whether or not a pipeline argument was given.
C6_MixedPipelinesRejected ==
  Cardinality(GivenPipelines) > 1 =>
    /\ pc \in BeforeStages \cup {"AssertionError", "ValueError"}
    /\ applied = <<>>

\* C7: after __init__ has run, the ValueError was raised exactly when a
\* keyword other than 'pipeline' was passed; when it was raised no transform
\* exists to go on with (nothing was extracted, normalised or applied, and no
\* step follows), and otherwise construction succeeded.
C7_UnexpectedKeywordRaises ==
  pc # "new" =>
    /\ pc = "ValueError" <=> (\E name \in args.kwargs : name # "pipeline")
    /\ pc = "ValueError" =>
         /\ extracted.as = "none" /\ result_ctor = "none" /\ applied = <<>>
         /\ ~ENABLED Next

\* 'pipeline' passed together with an unknown keyword: still the error.
C7_Witness ==
  /\ pc = "ValueError"
  /\ "pipeline" \in args.kwargs
  /\ args.pipeline # None

NoDuplicates(c) == \A n, m \in DOMAIN c : c[n] = c[m] => n = m

\* C8: RemoveDuplicates outputs each distinct input element exactly once and
\* nothing else: same element set, size = number of distinct input elements,
\* size <= input size with equality exactly when the input has no duplicates.
C8_RemoveDuplicatesDistinct ==
  (u_op = "RemoveDuplicates" /\ u_pc = 3) =>
    /\ Range(u_cur) = Range(u_in)
    /\ NoDuplicates(u_cur)
    /\ Len(u_cur) = Cardinality(Range(u_in))
    /\ Len(u_cur) <= Len(u_in)
    /\ Len(u_cur) = Len(u_in) <=> NoDuplicates(u_in)

\* An input with a repeated element and another one, fully processed.
C8_Witness ==
  /\ u_op = "RemoveDuplicates"
  /\ u_pc = 3
  /\ ~NoDuplicates(u_in)
  /\ Len(u_cur) = 2

\* C9: KvSwap maps every pair (k, v) to (v, k), element by element, and
\* applying it twice gives back the original collection.
C9_KvSwapInvolution ==
  u_op = "KvSwap" =>
    /\ Len(u_cur) = Len(u_in)
    /\ u_pc = 1 => \A n \in DOMAIN u_in : u_cur[n] = <<u_in[n][2], u_in[n][1]>>
    /\ u_pc = 2 => u_cur = u_in

\* A collection of different pairs, swapped twice.
C9_Witness ==
  /\ u_op = "KvSwap"
  /\ u_pc = 2
  /\ Len(u_in) = 2
  /\ u_in[1] # u_in[2]

\* C10: once both dispatches have run on the same input object,
\* _extract_input_pvalues took it for a mapping exactly when expand did.
C10_DispatchesAgree ==
  (extracted.as # "none" /\ result_ctor # "none") =>
    (extracted.as = "mapping" <=> result_ctor = "dict")

====
